---------------------------- MODULE Spec2Model ----------------------------
(***************************************************************************)
(* Secure geography fetch pipeline of react19-simple-maps:                 *)
(*   src/src/utils/geography-validation.ts  URL policy, content gates,     *)
(*                                           size-capped reader            *)
(*   src/src/utils/geography-fetching.ts    redirect loop, cached fetch    *)
(*   src/src/utils.ts                       SRI registry and verifier      *)
(*   src/src/utils/preloading.ts            resource hints and preloader   *)
(*                                                                         *)
(* Strings that the code inspects character by character (hostnames) are   *)
(* sequences of one-character strings.  A URL string is a record of its    *)
(* syntactic parts; two URL strings are equal iff their records are.  The  *)
(* path of a URL string is its field path followed by trail slashes.       *)
(***************************************************************************)
EXTENDS Integers, Sequences, FiniteSets, TLC

VARIABLES
  nodeEnv,                 \* process.env.NODE_ENV
  GEOGRAPHY_FETCH_CONFIG,  \* active security configuration (module-level let)
  vUrl,                    \* argument of the direct validateGeographyUrl call
  vResult,                 \* its outcome
  currentSRIConfig,        \* active SRI policy; customSRIMap is an object reference
  sriMaps,                 \* the customSRIMap objects, by reference
  sUrl,                    \* argument of the direct getSRIForUrl call
  sResult,                 \* its outcome
  cacheMode,               \* whether React's cache() has a request scope to memoize in
  cacheMap,                \* that scope's memo: URL string -> the call whose promise it holds
  calls,                   \* the fetchGeographiesCache calls and their progress
  server,                  \* what the remote side may answer
  preloadedUrls,           \* preloading.ts: the module-level Set of preloaded URLs
  hints,                   \* the react-dom resource hints issued so far
  lastPreload,             \* how the latest preloadGeography call ended
  preloader                \* globalGeographyPreloader: its fields and sleeping loops

(***************************************************************************)
(* Characters and number rendering                                         *)
(***************************************************************************)
HexDigits ==
  <<"0","1","2","3","4","5","6","7","8","9","a","b","c","d","e","f">>

DecChars == {"0","1","2","3","4","5","6","7","8","9"}

HexChars == DecChars \cup {"a","b","c","d","e","f","A","B","C","D","E","F"}

\* String(n) for 0 <= n <= 255, as the URL serializer and the template
\* literal in isPrivateIPAddress render an octet
Dec(n) ==
  IF n < 10 THEN <<HexDigits[n + 1]>>
  ELSE IF n < 100 THEN <<HexDigits[(n \div 10) + 1], HexDigits[(n % 10) + 1]>>
  ELSE <<HexDigits[(n \div 100) + 1], HexDigits[((n \div 10) % 10) + 1],
         HexDigits[(n % 10) + 1]>>

\* lowercase hexadecimal without leading zeros, 0 <= n <= 65535
Hex(n) ==
  IF n < 16 THEN <<HexDigits[n + 1]>>
  ELSE IF n < 256 THEN <<HexDigits[(n \div 16) + 1], HexDigits[(n % 16) + 1]>>
  ELSE IF n < 4096 THEN
    <<HexDigits[(n \div 256) + 1], HexDigits[((n \div 16) % 16) + 1],
      HexDigits[(n % 16) + 1]>>
  ELSE
    <<HexDigits[(n \div 4096) + 1], HexDigits[((n \div 256) % 16) + 1],
      HexDigits[((n \div 16) % 16) + 1], HexDigits[(n % 16) + 1]>>

HexVal(c) ==
  CASE c \in {"a", "A"} -> 10
    [] c \in {"b", "B"} -> 11
    [] c \in {"c", "C"} -> 12
    [] c \in {"d", "D"} -> 13
    [] c \in {"e", "E"} -> 14
    [] c \in {"f", "F"} -> 15
    [] OTHER -> CHOOSE d \in 0..9 : HexDigits[d + 1] = c

RECURSIVE ParseHex(_)
\* parseInt(s, 16) on a string of hex digits
ParseHex(s) ==
  IF s = <<>> THEN 0
  ELSE 16 * ParseHex(SubSeq(s, 1, Len(s) - 1)) + HexVal(s[Len(s)])

At(s, i) == IF i >= 1 /\ i <= Len(s) THEN s[i] ELSE ""

HasPrefix(s, p) == Len(s) >= Len(p) /\ SubSeq(s, 1, Len(p)) = p

Rest(s, n) == SubSeq(s, n + 1, Len(s))

(***************************************************************************)
(* URL strings, the URL parser and its host serializer                     *)
(***************************************************************************)
DefaultPort(scheme) ==
  CASE scheme = "https:" -> "443"
    [] scheme = "http:" -> "80"
    [] OTHER -> ""

Dotted(o) ==
  Dec(o[1]) \o <<".">> \o Dec(o[2]) \o <<".">> \o Dec(o[3]) \o <<".">> \o Dec(o[4])

\* length of the run of zero groups starting at index i
RECURSIVE ZeroRun(_, _)
ZeroRun(g, i) ==
  IF i > Len(g) \/ g[i] # 0 THEN 0 ELSE 1 + ZeroRun(g, i + 1)

\* start of the first longest run of two or more zero groups, 0 if none
CompressStart(g) ==
  LET longest == CHOOSE n \in 0..8 :
                   /\ \E i \in 1..8 : ZeroRun(g, i) = n
                   /\ \A i \in 1..8 : ZeroRun(g, i) <= n
  IN IF longest < 2 THEN 0
     ELSE CHOOSE i \in 1..8 :
            /\ ZeroRun(g, i) = longest
            /\ \A j \in 1..(i - 1) : ZeroRun(g, j) < longest

RECURSIVE JoinHex(_, _, _)
\* groups g[from..to] in hex, separated by ":"
JoinHex(g, from, to) ==
  IF from > to THEN <<>>
  ELSE IF from = to THEN Hex(g[from])
  ELSE Hex(g[from]) \o <<":">> \o JoinHex(g, from + 1, to)

\* the URL standard's IPv6 serializer (lowercase, longest zero run as "::")
SerializeIPv6(g) ==
  LET cs == CompressStart(g) IN
  IF cs = 0 THEN JoinHex(g, 1, 8)
  ELSE LET after == cs + ZeroRun(g, cs) IN
       (IF cs = 1 THEN <<":">> ELSE JoinHex(g, 1, cs - 1) \o <<":">>)
         \o <<":">> \o JoinHex(g, after, 8)

\* new URL(url).hostname
Hostname(host) ==
  CASE host.kind = "dns" -> host.name
    [] host.kind = "v4" -> Dotted(host.o)
    [] host.kind = "v6" -> <<"[">> \o SerializeIPv6(host.g) \o <<"]">>

IsUrlString(url) == url.form = "url"

\* new URL(url): default port dropped, host serialized
ParseURL(url) ==
  [protocol |-> url.scheme,
   hostname |-> Hostname(url.host),
   host     |-> url.host,
   port     |-> IF url.port = DefaultPort(url.scheme) THEN "" ELSE url.port,
   pathname |-> url.path,
   trail    |-> url.trail,
   search   |-> url.query,
   hash     |-> url.frag]

\* URL.prototype.href of a parsed URL, again as a URL string
Href(p) ==
  [form |-> "url", scheme |-> p.protocol, host |-> p.host, port |-> p.port,
   path |-> p.pathname, trail |-> p.trail, query |-> p.search, frag |-> p.hash]


(***************************************************************************)
(* Security configuration (geography-validation.ts)                        *)
(***************************************************************************)
JsonType == <<"a","p","p","l","i","c","a","t","i","o","n","/","j","s","o","n">>

GeoJsonType ==
  <<"a","p","p","l","i","c","a","t","i","o","n","/","g","e","o","+","j","s","o","n">>

DEFAULT_GEOGRAPHY_FETCH_CONFIG ==
  [TIMEOUT_MS            |-> 10000,
   MAX_RESPONSE_SIZE     |-> 50 * 1024 * 1024,
   ALLOWED_CONTENT_TYPES |-> <<JsonType, GeoJsonType>>,
   ALLOWED_PROTOCOLS     |-> {"https:"},
   ALLOW_HTTP_LOCALHOST  |-> FALSE,
   STRICT_HTTPS_ONLY     |-> TRUE]

DEVELOPMENT_GEOGRAPHY_FETCH_CONFIG ==
  [DEFAULT_GEOGRAPHY_FETCH_CONFIG EXCEPT
     !.ALLOWED_PROTOCOLS = {"https:", "http:"},
     !.ALLOW_HTTP_LOCALHOST = TRUE,
     !.STRICT_HTTPS_ONLY = FALSE]

\* { ...DEFAULT_GEOGRAPHY_FETCH_CONFIG, ...config }
configureGeographySecurityResult(config) ==
  config @@ DEFAULT_GEOGRAPHY_FETCH_CONFIG

enableDevelopmentModeResultAnywhere(env, current, allowHttpLocalhost) ==
  [DEVELOPMENT_GEOGRAPHY_FETCH_CONFIG EXCEPT
     !.ALLOW_HTTP_LOCALHOST = allowHttpLocalhost]

\* the configuration enableDevelopmentMode leaves behind
enableDevelopmentModeResult(env, current, allowHttpLocalhost) ==
  IF env = "production" THEN current
  ELSE [DEVELOPMENT_GEOGRAPHY_FETCH_CONFIG EXCEPT
          !.ALLOW_HTTP_LOCALHOST = allowHttpLocalhost]

(***************************************************************************)
(* Private / reserved address classification                               *)
(***************************************************************************)
stripIPv6BracketsNoop(hostname) == hostname

stripIPv6Brackets(hostname) ==
  IF Len(hostname) >= 1 /\ hostname[1] = "[" /\ hostname[Len(hostname)] = "]"
  THEN SubSeq(hostname, 2, Len(hostname) - 1)
  ELSE hostname

ipv4PrivateRangesNone(s) == FALSE

\* the ten regular expressions of ipv4PrivateRanges, in order
ipv4PrivateRanges(s) ==
  \/ HasPrefix(s, <<"1","0",".">>)
  \/ /\ HasPrefix(s, <<"1","7","2",".">>)
     /\ \/ At(s, 5) = "1" /\ At(s, 6) \in {"6","7","8","9"}
        \/ At(s, 5) = "2" /\ At(s, 6) \in DecChars
        \/ At(s, 5) = "3" /\ At(s, 6) \in {"0","1"}
     /\ At(s, 7) = "."
  \/ HasPrefix(s, <<"1","9","2",".","1","6","8",".">>)
  \/ HasPrefix(s, <<"1","2","7",".">>)
  \/ HasPrefix(s, <<"1","6","9",".","2","5","4",".">>)
  \/ HasPrefix(s, <<"0",".">>)
  \/ /\ HasPrefix(s, <<"1","0","0",".">>)
     /\ \/ /\ \/ At(s, 5) = "6" /\ At(s, 6) \in {"4","5","6","7","8","9"}
              \/ At(s, 5) \in {"7","8","9"} /\ At(s, 6) \in DecChars
           /\ At(s, 7) = "."
        \/ /\ \/ At(s, 5) = "1" /\ At(s, 6) \in {"0","1"} /\ At(s, 7) \in DecChars
              \/ /\ At(s, 5) = "1" /\ At(s, 6) = "2"
                 /\ At(s, 7) \in {"0","1","2","3","4","5","6","7"}
           /\ At(s, 8) = "."
  \/ HasPrefix(s, <<"1","9","2",".","0",".","0",".">>)
  \/ HasPrefix(s, <<"1","9","8",".","1">>) /\ At(s, 6) \in {"8","9"} /\ At(s, 7) = "."
  \/ HasPrefix(s, <<"2","3","3",".","2","5","2",".","0",".">>)

TeredoPatternWholeBlock(s) == HasPrefix(s, <<"2","0","0","1",":">>)

\* /^2001:(?:0{1,4}:|:)/i
TeredoPattern(s) ==
  /\ HasPrefix(s, <<"2","0","0","1",":">>)
  /\ \/ At(s, 6) = ":"
     \/ \E n \in 1..4 :
          /\ \A i \in 6..(5 + n) : At(s, i) = "0"
          /\ At(s, 6 + n) = ":"

\* the eight regular expressions of ipv6PrivateRanges, in order
ipv6PrivateRanges(s) ==
  \/ s = <<":",":","1">>
  \/ /\ At(s, 1) \in {"f","F"} /\ At(s, 2) \in {"e","E"}
     /\ At(s, 3) \in {"8","9","a","b","A","B"}
     /\ At(s, 4) \in HexChars /\ At(s, 5) = ":"
  \/ /\ At(s, 1) \in {"f","F"} /\ At(s, 2) \in {"c","d","C","D"}
     /\ At(s, 3) \in HexChars /\ At(s, 4) \in HexChars /\ At(s, 5) = ":"
  \/ s = <<":",":">>
  \/ /\ At(s, 1) \in {"f","F"} /\ At(s, 2) \in {"f","F"}
     /\ At(s, 3) \in HexChars /\ At(s, 4) \in HexChars /\ At(s, 5) = ":"
  \/ HasPrefix(s, <<"1","0","0",":",":">>)
  \/ /\ HasPrefix(s, <<"2","0","0","1",":">>)
     /\ At(s, 6) \in {"d","D"} /\ At(s, 7) \in {"b","B"}
     /\ At(s, 8) = "8" /\ At(s, 9) = ":"
  \/ TeredoPattern(s)

\* index of the first occurrence of character c in s, 0 if none
IndexOf(s, c) ==
  IF \E i \in 1..Len(s) : s[i] = c
  THEN CHOOSE i \in 1..Len(s) : s[i] = c /\ \A j \in 1..(i - 1) : s[j] # c
  ELSE 0

RECURSIVE SplitOn(_, _)
SplitOn(s, c) ==
  LET i == IndexOf(s, c) IN
  IF i = 0 THEN <<s>>
  ELSE <<SubSeq(s, 1, i - 1)>> \o SplitOn(Rest(s, i), c)

MappedPrefix == <<":",":","f","f","f","f",":">>

IsMappedPrefix(s) ==
  /\ Len(s) >= 7
  /\ At(s, 1) = ":" /\ At(s, 2) = ":"
  /\ \A i \in 3..6 : At(s, i) \in {"f", "F"}
  /\ At(s, 7) = ":"

\* /^::ffff:(\d{1,3}\.\d{1,3}\.\d{1,3}\.\d{1,3})$/i
ipv4MappedDottedMatch(s) ==
  /\ IsMappedPrefix(s)
  /\ LET parts == SplitOn(Rest(s, 7), ".") IN
       /\ Len(parts) = 4
       /\ \A k \in 1..4 :
            /\ Len(parts[k]) \in 1..3
            /\ \A i \in 1..Len(parts[k]) : parts[k][i] \in DecChars

ipv4MappedHexMatchNever(s) == FALSE

\* /^::ffff:([0-9a-f]{1,4}):([0-9a-f]{1,4})$/i
ipv4MappedHexMatch(s) ==
  /\ IsMappedPrefix(s)
  /\ LET parts == SplitOn(Rest(s, 7), ":") IN
       /\ Len(parts) = 2
       /\ \A k \in 1..2 :
            /\ Len(parts[k]) \in 1..4
            /\ \A i \in 1..Len(parts[k]) : parts[k][i] \in HexChars

RECURSIVE isPrivateIPAddress(_)
isPrivateIPAddress(hostname) ==
  IF hostname = <<>> \/ hostname = <<"l","o","c","a","l","h","o","s","t">>
  THEN FALSE
  ELSE
    LET normalised == stripIPv6Brackets(hostname) IN
    IF ipv4PrivateRanges(normalised) THEN TRUE
    ELSE IF ipv6PrivateRanges(normalised) THEN TRUE
    ELSE IF ipv4MappedDottedMatch(normalised)
      THEN isPrivateIPAddress(Rest(normalised, 7))
    ELSE IF ipv4MappedHexMatch(normalised) THEN
      LET parts == SplitOn(Rest(normalised, 7), ":")
          hi == ParseHex(parts[1])
          lo == ParseHex(parts[2])
          reconstructed ==
            Dotted(<<(hi \div 256) % 256, hi % 256, (lo \div 256) % 256, lo % 256>>)
      IN isPrivateIPAddress(reconstructed)
    ELSE FALSE

(***************************************************************************)
(* validateGeographyUrl                                                    *)
(***************************************************************************)
\* An outcome: ok, or an error with its type property ("untyped" when the
\* error object has none), its message template, quoted: whether a value
\* interpolated into the message contains the text "Invalid geography data",
\* and cause: the name of the error attached as its cause.
Ok ==
  [ok |-> TRUE, name |-> "none", type |-> "none", msg |-> "none", quoted |-> FALSE,
   cause |-> "none"]

\* createGeographyFetchError(type, message, ...) with an interpolated value
GeoErrorQuoting(type, msg, quoted) ==
  [ok |-> FALSE, name |-> "GeographyError", type |-> type, msg |-> msg,
   quoted |-> quoted, cause |-> "none"]

\* createGeographyFetchError(type, message, url, originalError)
GeoErrorCausedBy(type, msg, quoted, originalError) ==
  [GeoErrorQuoting(type, msg, quoted) EXCEPT !.cause = originalError.name]

\* createGeographyFetchError(type, message, ...): a GeographyError
GeoError(type, msg) == GeoErrorQuoting(type, msg, FALSE)

\* an error object without a type property: new Error(message), or what the
\* platform throws (TypeError, AbortError, SyntaxError)
UntypedError(name, msg) ==
  [ok |-> FALSE, name |-> name, type |-> "untyped", msg |-> msg, quoted |-> FALSE,
   cause |-> "none"]

PlainError(msg) == UntypedError("Error", msg)

LocalhostName == <<"l","o","c","a","l","h","o","s","t">>

LoopbackV4Name == <<"1","2","7",".","0",".","0",".","1">>

LoopbackV6Name == <<":",":","1">>

IsLocalhostNameNever(h) == FALSE

\* hostname === 'localhost' || hostname === '127.0.0.1' || hostname === '::1'
IsLocalhostName(h) == h \in {LocalhostName, LoopbackV4Name, LoopbackV6Name}

\* validateURL: the basic check that runs outside the try block
validateURL(url) ==
  IF url.form \in {"empty", "nonstring"}
    THEN PlainError("URL must be a non-empty string")
  ELSE IF url.form = "malformed" THEN PlainError("Invalid URL format")
  ELSE Ok

StrictHttpsOnlyIgnored(config) == FALSE

\* GEOGRAPHY_FETCH_CONFIG.STRICT_HTTPS_ONLY
StrictHttpsOnly(config) == config.STRICT_HTTPS_ONLY

validateGeographyUrl(url, config, env) ==
  IF ~validateURL(url).ok THEN validateURL(url)
  ELSE
    LET parsedUrl == ParseURL(url)
        bareHostname == stripIPv6Brackets(parsedUrl.hostname)
        protocolCheck ==
          IF StrictHttpsOnly(config) THEN
            IF parsedUrl.protocol # "https:"
              THEN GeoError("SECURITY_ERROR", "strict https only")
              ELSE Ok
          ELSE IF parsedUrl.protocol \notin config.ALLOWED_PROTOCOLS
            THEN GeoError("SECURITY_ERROR", "unsupported protocol")
          ELSE IF parsedUrl.protocol = "http:" THEN
            IF ~config.ALLOW_HTTP_LOCALHOST
              THEN GeoError("SECURITY_ERROR", "http disabled")
            ELSE IF ~IsLocalhostName(bareHostname)
              THEN GeoError("SECURITY_ERROR", "http only for localhost")
            ELSE IF env = "production"
              THEN GeoError("SECURITY_ERROR", "http localhost in production")
            ELSE Ok
          ELSE Ok
    IN IF ~protocolCheck.ok THEN protocolCheck
       ELSE IF IsLocalhostName(bareHostname) /\ env = "production"
         THEN GeoError("SECURITY_ERROR", "localhost in production")
       ELSE IF isPrivateIPAddress(parsedUrl.hostname)
         THEN GeoError("SECURITY_ERROR", "private ip")
       ELSE Ok

(***************************************************************************)
(* Subresource integrity registry and verifier (utils.ts)                  *)
(***************************************************************************)
\* the base64 alphabet of btoa; a digest is rendered as one character of it
Base64Alphabet ==
  <<"A","B","C","D","E","F","G","H","I","J","K","L","M","N","O","P","Q","R",
    "S","T","U","V","W","X","Y","Z","a","b","c","d","e","f","g","h","i","j",
    "k","l","m","n","o","p","q","r","s","t","u","v","w","x","y","z","0","1",
    "2","3","4","5","6","7","8","9","+","/">>

\* a body is a sequence over a small alphabet of JSON fragments:
\* "T" is {"type":"Topology",...  "F" is {"type":"FeatureCollection",...
\* "W" is {"type":"Widget",...  "{" and "}" are themselves, "n" is null
ByteCode(b) ==
  CASE b = "{" -> 1
    [] b = "}" -> 2
    [] b = "T" -> 27
    [] b = "F" -> 5
    [] b = "W" -> 9
    [] OTHER -> 13

AlgorithmSeed(algorithm) ==
  CASE algorithm = "sha256" -> 0
    [] algorithm = "sha384" -> 7
    [] algorithm = "sha512" -> 19

RECURSIVE DigestSum(_, _)
DigestSum(data, i) ==
  IF i > Len(data) THEN 0
  ELSE i * ByteCode(data[i]) + DigestSum(data, i + 1)

\* crypto.subtle.digest: a six-bit stand-in that depends on the algorithm
\* and on every byte and its position
SubtleDigest(algorithm, data) ==
  (AlgorithmSeed(algorithm) + 3 * Len(data) + DigestSum(data, 1)) % 64

\* calculateHash: digest, then base64
calculateHash(data, algorithm) ==
  [prefix |-> "", digest |-> Base64Alphabet[SubtleDigest(algorithm, data) + 1]]

\* expectedSRI.hash.replace(`${expectedSRI.algorithm}-`, '')
ExpectedHash(expectedSRI) ==
  IF expectedSRI.hash.prefix = expectedSRI.algorithm
  THEN [prefix |-> "", digest |-> expectedSRI.hash.digest]
  ELSE expectedSRI.hash

UrlQuotesPhrase(url) == url.frag = "#Invalid geography data"

\* calculatedHash !== expectedHash
HashMismatch(calculatedHash, expectedHash) == calculatedHash # expectedHash

validateSRIFromArrayBuffer(arrayBuffer, url, expectedSRI) ==
  IF HashMismatch(calculateHash(arrayBuffer, expectedSRI.algorithm),
                  ExpectedHash(expectedSRI))
  THEN GeoErrorQuoting("SECURITY_ERROR", "Subresource Integrity check failed for url",
                       UrlQuotesPhrase(url))
  ELSE Ok

\* pathname.replace(/\/+$/, '') || '/'
StripTrailingSlashes(parsed) ==
  [parsed EXCEPT !.trail = IF parsed.pathname = "" THEN 1 ELSE 0]

KeepFragment(parsed) == parsed

\* parsed.hash = ''
ClearFragment(parsed) == [parsed EXCEPT !.hash = ""]

canonicalizeUrlForSRI(url) ==
  IF ~IsUrlString(url) THEN url
  ELSE
    LET parsed == ClearFragment(ParseURL(url))
        portCleared ==
          IF parsed.port = DefaultPort(parsed.protocol)
          THEN [parsed EXCEPT !.port = ""] ELSE parsed
    IN Href(StripTrailingSlashes(portCleared))

SRIRecord(algorithm, prefix, digest) ==
  [algorithm |-> algorithm, hash |-> [prefix |-> prefix, digest |-> digest],
   enforceIntegrity |-> TRUE]

ExampleName == <<"e","x","a","m","p","l","e",".","c","o","m">>

UnpkgName == <<"u","n","p","k","g",".","c","o","m">>

\* https://unpkg.com/world-atlas@2/countries-110m.json
KnownUrl ==
  [form |-> "url", scheme |-> "https:", host |-> [kind |-> "dns", name |-> UnpkgName],
   port |-> "", path |-> "/world-atlas@2/countries-110m.json", trail |-> 0,
   query |-> "", frag |-> ""]

\* the published file behind KnownUrl
GenuineAtlas == <<"T", "}">>

\* the registry of known sources; one entry stands for the six of the source,
\* its hash being the sha384 digest of the published file
KNOWN_GEOGRAPHY_SRI ==
  KnownUrl :> SRIRecord("sha384", "sha384", calculateHash(GenuineAtlas, "sha384").digest)

NoRecord == [kind |-> "null"]

FoundRecord(r) == [kind |-> "record", record |-> r]

LookupThrows(err) == [kind |-> "throw", error |-> err]

UnknownSourcesAdmitted(policy) == FALSE

\* enforceForAllSources && !allowUnknownSources
UnknownSourcesForbidden(policy) ==
  policy.enforceForAllSources /\ ~policy.allowUnknownSources

\* getSRIForUrl against a policy and the contents of its customSRIMap
getSRIForUrl(url, policy, customSRIMap) ==
  LET canonical == canonicalizeUrlForSRI(url) IN
  IF canonical \in DOMAIN customSRIMap THEN FoundRecord(customSRIMap[canonical])
  ELSE IF url \in DOMAIN customSRIMap THEN FoundRecord(customSRIMap[url])
  ELSE IF canonical \in DOMAIN KNOWN_GEOGRAPHY_SRI /\ policy.enforceForKnownSources
    THEN FoundRecord(KNOWN_GEOGRAPHY_SRI[canonical])
  ELSE IF url \in DOMAIN KNOWN_GEOGRAPHY_SRI /\ policy.enforceForKnownSources
    THEN FoundRecord(KNOWN_GEOGRAPHY_SRI[url])
  ELSE IF UnknownSourcesForbidden(policy)
    THEN LookupThrows(GeoErrorQuoting("SECURITY_ERROR",
           "SRI enforcement is enabled but no integrity hash is available for url",
           UrlQuotesPhrase(url)))
  ELSE NoRecord

\* DEFAULT_SRI_CONFIG; its customSRIMap field refers to the object "default"
DEFAULT_SRI_CONFIG ==
  [enforceForKnownSources |-> TRUE,
   enforceForAllSources   |-> FALSE,
   allowUnknownSources    |-> TRUE,
   customSRIMap           |-> "default"]

\* { ...DEFAULT_SRI_CONFIG, ...config }
configureSRIResult(config) == config @@ DEFAULT_SRI_CONFIG

enableStrictSRIResult(current) ==
  [current EXCEPT !.enforceForKnownSources = TRUE,
                  !.enforceForAllSources = TRUE,
                  !.allowUnknownSources = FALSE]

disableSRIResult(current) ==
  [current EXCEPT !.enforceForKnownSources = FALSE,
                  !.enforceForAllSources = FALSE,
                  !.allowUnknownSources = TRUE]

(***************************************************************************)
(* Response gates, body parsing and error mapping                          *)
(***************************************************************************)
LowerCase(c) ==
  CASE c = "A" -> "a" [] c = "P" -> "p" [] c = "L" -> "l" [] c = "I" -> "i"
    [] c = "C" -> "c" [] c = "T" -> "t" [] c = "O" -> "o" [] c = "N" -> "n"
    [] c = "J" -> "j" [] c = "S" -> "s" [] c = "G" -> "g" [] c = "E" -> "e"
    [] c = "H" -> "h" [] c = "M" -> "m" [] c = "X" -> "x" [] c = "D" -> "d"
    [] OTHER -> c

\* String.prototype.toLowerCase
ToLowerCase(str) == [i \in 1..Len(str) |-> LowerCase(str[i])]

\* String.prototype.includes
Includes(str, sub) ==
  \E i \in 0..(Len(str) - Len(sub)) : SubSeq(str, i + 1, i + Len(sub)) = sub

Phrase ==
  <<"I","n","v","a","l","i","d"," ","g","e","o","g","r","a","p","h","y"," ",
    "d","a","t","a">>

NoHeader == <<>>

\* validateContentType on the value of the Content-Type header
validateContentType(contentType, config) ==
  IF contentType = NoHeader
    THEN GeoError("VALIDATION_ERROR", "Missing Content-Type header")
  ELSE IF \E i \in 1..Len(config.ALLOWED_CONTENT_TYPES) :
            Includes(ToLowerCase(contentType), config.ALLOWED_CONTENT_TYPES[i])
    THEN Ok
  ELSE GeoErrorQuoting("VALIDATION_ERROR", "Invalid content type",
                       Includes(contentType, Phrase))

NoLength == -1

\* validateResponseSize on the parsed Content-Length header
validateResponseSize(contentLength, config) ==
  IF contentLength # NoLength /\ contentLength > config.MAX_RESPONSE_SIZE
  THEN GeoError("VALIDATION_ERROR", "Response too large (Content-Length)")
  ELSE Ok

\* the value JSON.parse returns: whether it is an object, its type member
\* and the names of its members
JsonObject(type, members) ==
  [syntax |-> TRUE, object |-> TRUE, type |-> type, members |-> members]

\* JSON.parse(new TextDecoder().decode(arrayBuffer)) on the body alphabet.
\* A document is an opening token and the closing brace: "T" opens a
\* Topology with objects and arcs, "t" a Topology with nothing but its type,
\* "F" a FeatureCollection with features, "f" one with nothing but its type,
\* "W" an object of type Widget, "{" an object without members; "n" is the
\* literal null; everything else is a syntax error
JsonParse(text) ==
  IF text = <<"T", "}">> THEN JsonObject("Topology", {"type", "objects", "arcs"})
  ELSE IF text = <<"t", "}">> THEN JsonObject("Topology", {"type"})
  ELSE IF text = <<"F", "}">> THEN JsonObject("FeatureCollection", {"type", "features"})
  ELSE IF text = <<"f", "}">> THEN JsonObject("FeatureCollection", {"type"})
  ELSE IF text = <<"W", "}">> THEN JsonObject("Widget", {"type"})
  ELSE IF text = <<"{", "}">> THEN JsonObject("undefined", {})
  ELSE IF text = <<"n">>
    THEN [syntax |-> TRUE, object |-> FALSE, type |-> "undefined", members |-> {}]
  ELSE [syntax |-> FALSE, object |-> FALSE, type |-> "undefined", members |-> {}]

validateGeographyDataAsParseError(data) ==
  IF data.object /\ data.type \in {"Topology", "FeatureCollection"} THEN Ok
  ELSE GeoError("GEOGRAPHY_PARSE_ERROR", "Invalid JSON format in geography data")

validateGeographyData(data) ==
  IF ~data.object
    THEN GeoError("VALIDATION_ERROR", "Invalid geography data: not a valid object")
  ELSE IF data.type \notin {"Topology", "FeatureCollection"}
    THEN GeoError("VALIDATION_ERROR", "Invalid geography data: expected Topology or FeatureCollection")
  ELSE Ok

\* what JSON.parse throws on malformed text
JsonSyntaxError == UntypedError("SyntaxError", "Unexpected token")

\* parseGeographyFromArrayBuffer: the error it throws, or Ok
parseGeographyFromArrayBuffer(arrayBuffer) ==
  LET data == JsonParse(arrayBuffer) IN
  IF ~data.syntax
    THEN GeoErrorCausedBy("GEOGRAPHY_PARSE_ERROR", "Invalid JSON format in geography data",
                          FALSE, JsonSyntaxError)
  ELSE validateGeographyData(data)

\* the value parseGeographyFromArrayBuffer returns when it does not throw
ParsedDocument(arrayBuffer) ==
  [type |-> JsonParse(arrayBuffer).type, members |-> JsonParse(arrayBuffer).members]

NoDocument == [type |-> "none", members |-> {}]

\* error.message.includes('Invalid geography data')
MessageHasPhrase(error) ==
  \/ error.msg \in {"Invalid geography data: not a valid object",
                    "Invalid geography data: expected Topology or FeatureCollection"}
  \/ error.quoted

MessageHasFetch(error) == error.msg \in {"Failed to fetch", "fetch failed"}

handleFetchErrorAsLoadError(error) == GeoError("GEOGRAPHY_LOAD_ERROR", error.msg)

handleFetchError(error) ==
  IF error.name = "AbortError"
    THEN GeoErrorCausedBy("GEOGRAPHY_LOAD_ERROR", "Request timeout", FALSE, error)
  ELSE IF error.name = "TypeError" /\ MessageHasFetch(error)
    THEN GeoErrorCausedBy("GEOGRAPHY_LOAD_ERROR", "Network error: Unable to fetch geography",
                          FALSE, error)
  ELSE IF MessageHasPhrase(error)
    THEN GeoErrorCausedBy("GEOGRAPHY_PARSE_ERROR", error.msg, error.quoted, error)
  ELSE IF error.type # "untyped" THEN error
  ELSE GeoErrorCausedBy("GEOGRAPHY_LOAD_ERROR", error.msg, FALSE, error)

RECURSIVE Concat(_)
\* the chunks copied one after another into one buffer
Concat(chunks) ==
  IF chunks = <<>> THEN <<>> ELSE Head(chunks) \o Concat(Tail(chunks))

MAX_REDIRECTS == 5

(***************************************************************************)
(* Inputs of the URL policy checks                                         *)
(***************************************************************************)
NodeEnvs == {"production", "development"}

ProtocolLists == SUBSET {"https:", "http:"}

Optional(field, values) == {<<>>} \cup {field :> v : v \in values}

\* partial overrides passed to configureGeographySecurity
PolicyOverrides ==
  {a @@ b @@ c :
     a \in Optional("STRICT_HTTPS_ONLY", BOOLEAN),
     b \in Optional("ALLOW_HTTP_LOCALHOST", BOOLEAN),
     c \in Optional("ALLOWED_PROTOCOLS", ProtocolLists)}

V4Hosts ==
  {[kind |-> "v4", o |-> <<a, b, c, 1>>] :
     a \in {0, 8, 10, 11, 100, 127, 128, 169, 172, 192, 198, 233},
     b \in {0, 15, 16, 17, 18, 19, 20, 31, 32, 63, 64, 127, 128, 168, 252, 254},
     c \in {0, 1}}

\* first group: 0, 1, 64, 100, 101, 2001, 2002, fbff, fc00, fdff, fe00, fe7f,
\*   fe80, febf, fec0, feff, ff00, ffff; second: 0, 1, 200, db8, db9, 4860;
\* seventh: 0, 808, a00, 7f00, c0a8
V6Hosts ==
  {[kind |-> "v6", g |-> <<g1, g2, 0, g4, 0, 0, 0, g8>>] :
     g1 \in {0, 1, 100, 256, 257, 8193, 8194, 64511, 64512, 65023, 65024,
             65151, 65152, 65215, 65216, 65279, 65280, 65535},
     g2 \in {0, 1, 512, 3512, 3513, 18528},
     g4 \in {0, 1},
     g8 \in {0, 1}}
  \cup
  {[kind |-> "v6", g |-> <<0, 0, 0, 0, 0, g6, g7, g8>>] :
     g6 \in {0, 65535},
     g7 \in {0, 2056, 2560, 32512, 49320},
     g8 \in {0, 1}}

DnsHosts ==
  {[kind |-> "dns", name |-> n] : n \in {LocalhostName, ExampleName, UnpkgName}}

UrlOf(scheme, host) ==
  [form |-> "url", scheme |-> scheme, host |-> host, port |-> "",
   path |-> "/x.json", trail |-> 0, query |-> "", frag |-> ""]

NotAUrl(form) ==
  [form |-> form, scheme |-> "", host |-> [kind |-> "dns", name |-> <<>>],
   port |-> "", path |-> "", trail |-> 0, query |-> "", frag |-> ""]

PolicyUrls ==
  {UrlOf(s, h) : s \in {"https:", "http:"}, h \in V4Hosts \cup V6Hosts \cup DnsHosts}
    \cup {NotAUrl(f) : f \in {"empty", "nonstring", "malformed"}}

NoUrl == NotAUrl("none")

\* lastPreload before any call
NoPreload == [url |-> NoUrl, threw |-> FALSE, warned |-> FALSE]

\* new GeographyPreloader(); loops counts the processQueue activations
\* suspended at their throttle delay
NewPreloader ==
  [preloadedUrls |-> {}, preloadQueue |-> <<>>, isProcessing |-> FALSE, loops |-> 0]

(***************************************************************************)
(* Configuration operations and direct validator calls                     *)
(***************************************************************************)
cfgVars == <<nodeEnv, GEOGRAPHY_FETCH_CONFIG>>

urlVars == <<vUrl, vResult>>

sriVars == <<currentSRIConfig, sriMaps, sUrl, sResult>>

pipeVars == <<cacheMode, cacheMap, calls, server>>

preloadVars == <<preloadedUrls, hints, lastPreload, preloader>>

vars == <<cfgVars, urlVars, sriVars, pipeVars, preloadVars>>

Pending ==
  [ok |-> FALSE, name |-> "none", type |-> "pending", msg |-> "none", quoted |-> FALSE,
   cause |-> "none"]

ConfigureGeographySecurityAccumulating(config) ==
  /\ GEOGRAPHY_FETCH_CONFIG' = config @@ GEOGRAPHY_FETCH_CONFIG
  /\ vResult' = Pending
  /\ UNCHANGED <<preloadVars, nodeEnv, vUrl, sriVars, pipeVars>>

\* configureGeographySecurity(config)
ConfigureGeographySecurity(config) ==
  /\ GEOGRAPHY_FETCH_CONFIG' = configureGeographySecurityResult(config)
  /\ vResult' = Pending
  /\ UNCHANGED <<preloadVars, nodeEnv, vUrl, sriVars, pipeVars>>

EnableDevelopmentMode(allowHttpLocalhost) ==
  /\ GEOGRAPHY_FETCH_CONFIG' =
       enableDevelopmentModeResult(nodeEnv, GEOGRAPHY_FETCH_CONFIG, allowHttpLocalhost)
  /\ vResult' = Pending
  /\ UNCHANGED <<preloadVars, nodeEnv, vUrl, sriVars, pipeVars>>

\* a direct call validateGeographyUrl(vUrl)
ValidateGeographyUrl ==
  /\ vResult = Pending
  /\ vResult' = validateGeographyUrl(vUrl, GEOGRAPHY_FETCH_CONFIG, nodeEnv)
  /\ UNCHANGED <<preloadVars, cfgVars, vUrl, sriVars, pipeVars>>

(***************************************************************************)
(* SRI registry operations and direct lookups                              *)
(***************************************************************************)
PublicUrl == UrlOf("https:", [kind |-> "dns", name |-> ExampleName])

WithFragment(url) == [url EXCEPT !.frag = "#f"]

WithDefaultPort(url) == [url EXCEPT !.port = DefaultPort(url.scheme)]

WithQuery(url) == [url EXCEPT !.query = "?q"]

WithTrailingSlash(url) == [url EXCEPT !.trail = 1]

\* the URL strings looked up directly
LookupUrls ==
  UNION {{u, WithFragment(u), WithDefaultPort(u)} : u \in {PublicUrl, KnownUrl}}
    \cup {WithQuery(KnownUrl), WithTrailingSlash(KnownUrl), NotAUrl("malformed")}

\* the URL strings custom records are registered under
RegisteredUrls == {PublicUrl, WithFragment(PublicUrl), WithFragment(KnownUrl)}

CustomRecords == {SRIRecord("sha256", "sha256", "a"), SRIRecord("sha512", "sha512", "b")}

MaxCustomEntries == 2

EmptyMap == <<>>

StoredEntries == Cardinality(DOMAIN sriMaps["default"]) + Cardinality(DOMAIN sriMaps["user"])

\* partial configurations passed to configureSRI; a customSRIMap in them is a
\* fresh empty object
SRIOverrides ==
  {a @@ b @@ c @@ d :
     a \in {"enforceForKnownSources" :> v : v \in BOOLEAN},
     b \in {"enforceForAllSources" :> v : v \in BOOLEAN},
     c \in Optional("allowUnknownSources", BOOLEAN),
     d \in Optional("customSRIMap", {"user"})}

ConfigureSRI(config) ==
  /\ currentSRIConfig' = configureSRIResult(config)
  /\ sriMaps' = IF "customSRIMap" \in DOMAIN config
                THEN [sriMaps EXCEPT !["user"] = EmptyMap] ELSE sriMaps
  /\ sResult' = Pending
  /\ UNCHANGED <<preloadVars, cfgVars, urlVars, sUrl, pipeVars>>

EnableStrictSRI ==
  /\ currentSRIConfig' = enableStrictSRIResult(currentSRIConfig)
  /\ sResult' = Pending
  /\ UNCHANGED <<preloadVars, cfgVars, urlVars, sriMaps, sUrl, pipeVars>>

DisableSRI ==
  /\ currentSRIConfig' = disableSRIResult(currentSRIConfig)
  /\ sResult' = Pending
  /\ UNCHANGED <<preloadVars, cfgVars, urlVars, sriMaps, sUrl, pipeVars>>

\* currentSRIConfig.customSRIMap[url] = sri
addCustomSRIResult(maps, ref, url, sri) ==
  [maps EXCEPT ![ref] = (url :> sri) @@ maps[ref]]

AddCustomSRI(url, sri) ==
  /\ url \notin DOMAIN sriMaps[currentSRIConfig.customSRIMap]
       => StoredEntries < MaxCustomEntries
  /\ sriMaps' = addCustomSRIResult(sriMaps, currentSRIConfig.customSRIMap, url, sri)
  /\ sResult' = Pending
  /\ UNCHANGED <<preloadVars, cfgVars, urlVars, currentSRIConfig, sUrl, pipeVars>>

\* the map currentSRIConfig.customSRIMap refers to
CustomSRIMap == sriMaps[currentSRIConfig.customSRIMap]

Lookup(url) == getSRIForUrl(url, currentSRIConfig, CustomSRIMap)

\* a direct call getSRIForUrl(sUrl)
GetSRIForUrl ==
  /\ sResult = Pending
  /\ sResult' = Lookup(sUrl)
  /\ UNCHANGED <<preloadVars, cfgVars, urlVars, currentSRIConfig, sriMaps, sUrl, pipeVars>>

(***************************************************************************)
(* fetchGeographiesCache (geography-fetching.ts)                           *)
(***************************************************************************)
NumCalls == 2

SmallCap == 3

MaxChunk == 2

Calls == 1..NumCalls

BodyBytes == {"T", "}"}

IdleCall ==
  [pc             |-> "idle",     \* idle, fetch, drain, read, buffer, done, shared
   url            |-> NoUrl,      \* the argument
   currentUrl     |-> NoUrl,
   hop            |-> 0,
   location       |-> NoUrl,      \* Location of the redirect being drained
   validated      |-> {},         \* URLs validateGeographyUrl accepted in this call
   requests       |-> <<>>,       \* URLs handed to fetch(), in order
   sriConfig      |-> NoRecord,
   validatedUnder |-> DEFAULT_GEOGRAPHY_FETCH_CONFIG,  \* the policy the argument was validated under
   timer          |-> "none",     \* none, armed, fired, cleared
   maxBytes       |-> 0,
   gated          |-> FALSE,      \* validateContentType(response) ran
   contentType    |-> NoHeader,   \* the Content-Type it read
   contentLength  |-> NoLength,
   received       |-> <<>>,       \* every chunk the reader has delivered
   chunks         |-> <<>>,       \* the chunks array of the reader loop
   totalBytes     |-> 0,
   reads          |-> 0,          \* reader.read() calls issued
   cancelled      |-> FALSE,      \* reader.cancel() was called
   bodyReads      |-> 0,          \* times the final response's body was consumed
   returned       |-> FALSE,      \* readResponseWithSizeLimit returned buffer
   buffer         |-> <<>>,
   parsed         |-> FALSE,      \* JSON.parse ran on the buffer
   document       |-> NoDocument,
   thrown         |-> Pending,    \* the error as a stage threw it
   outcome        |-> Pending,
   source         |-> 0,          \* the call whose promise a memo hit returned
   afterRejection |-> FALSE]      \* an earlier call for the same URL had rejected

\* the settled or pending result the caller of c observes
OutcomeOf(c) ==
  IF calls[c].pc = "shared" THEN calls[calls[c].source].outcome ELSE calls[c].outcome

DocumentOf(c) ==
  IF calls[c].pc = "shared" THEN calls[calls[c].source].document ELSE calls[c].document

\* clearTimeout(timeoutId)
cleanup(call) == [call EXCEPT !.timer = IF @ = "armed" THEN "cleared" ELSE @]

\* an error thrown before the try block rejects the promise as it is
RejectUnhandled(call, error) ==
  [call EXCEPT !.pc = "done", !.thrown = error, !.outcome = error]

\* catch (error) { cleanup(); throw handleFetchError(error, url) }
Reject(call, error) ==
  [cleanup(call) EXCEPT !.pc = "done", !.thrown = error,
                        !.outcome = handleFetchError(error)]

\* fetch(currentUrl, options): with an aborted signal no request goes out
IssueFetch(call) ==
  IF call.timer = "fired"
  THEN Reject(call, UntypedError("AbortError", "This operation was aborted"))
  ELSE [call EXCEPT !.pc = "fetch", !.requests = Append(@, call.currentUrl)]

\* the synchronous prefix of the cached function, up to the first fetch
StartPipeline(call, url) ==
  LET validation == validateGeographyUrl(url, GEOGRAPHY_FETCH_CONFIG, nodeEnv)
      lookup == Lookup(url)
      checked == [call EXCEPT !.validatedUnder = GEOGRAPHY_FETCH_CONFIG]
  IN IF ~validation.ok THEN RejectUnhandled(checked, validation)
     ELSE IF lookup.kind = "throw"
       THEN RejectUnhandled([checked EXCEPT !.validated = {url}], lookup.error)
     ELSE IssueFetch([checked EXCEPT !.validated = {url},
                                  !.sriConfig = lookup,
                                  !.timer = "armed",
                                  !.currentUrl = url])

\* an earlier call for url has already rejected
RejectedBefore(url) ==
  \E d \in Calls :
     /\ calls[d].pc \in {"done", "shared"}
     /\ calls[d].url = url
     /\ OutcomeOf(d) # Pending
     /\ ~OutcomeOf(d).ok

PrivateUrl == UrlOf("https:", [kind |-> "v4", o |-> <<10, 0, 0, 1>>])

\* the arguments the application passes, by set-up
CallUrls ==
  IF server = "wellBehaved" THEN {PublicUrl, KnownUrl}
  ELSE IF server = "documents" THEN {PublicUrl}
  ELSE IF nodeEnv = "development"
    THEN {UrlOf("http:", [kind |-> "dns", name |-> LocalhostName]),
          UrlOf("http:", [kind |-> "dns", name |-> ExampleName])}
  ELSE IF currentSRIConfig.enforceForAllSources THEN {PublicUrl, KnownUrl}
  ELSE IF CustomSRIMap # EmptyMap THEN {PublicUrl}
  ELSE {PublicUrl, KnownUrl, [KnownUrl EXCEPT !.frag = "#Invalid geography data"],
        PrivateUrl, NotAUrl("malformed")}

\* fetchGeographiesCache(url): cache() returns the memoized promise when
\* it has a scope holding one for this argument, and otherwise runs the function
FetchGeographiesCache(c, url) ==
  /\ calls[c].pc = "idle"
  /\ IF c = 1 THEN TRUE ELSE server = "wellBehaved" /\ calls[c - 1].pc # "idle"
  /\ LET fresh == [IdleCall EXCEPT !.url = url, !.afterRejection = RejectedBefore(url)]
     IN IF cacheMode = "memo" /\ url \in DOMAIN cacheMap
        THEN /\ calls' = [calls EXCEPT ![c] =
                            [fresh EXCEPT !.pc = "shared", !.source = cacheMap[url]]]
             /\ UNCHANGED cacheMap
        ELSE /\ calls' = [calls EXCEPT ![c] = StartPipeline(fresh, url)]
             /\ cacheMap' = IF cacheMode = "memo" THEN (url :> c) @@ cacheMap
                            ELSE cacheMap
  /\ UNCHANGED <<preloadVars, cfgVars, urlVars, sriVars, cacheMode, server>>

\* setTimeout(() => controller.abort(), TIMEOUT_MS) comes due
TimerFires(c) ==
  /\ calls[c].timer = "armed"
  /\ calls[c].pc \in {"fetch", "drain"}
  /\ calls' = [calls EXCEPT ![c] =
       IF calls[c].pc = "fetch"
       THEN Reject([calls[c] EXCEPT !.timer = "fired"],
                   UntypedError("AbortError", "This operation was aborted"))
       ELSE [calls[c] EXCEPT !.timer = "fired"]]
  /\ UNCHANGED <<preloadVars, cfgVars, urlVars, sriVars, cacheMode, cacheMap, server>>

\* the pending fetch() rejects: the network failed
FetchFails(c, msg) ==
  /\ calls[c].pc = "fetch"
  /\ calls' = [calls EXCEPT ![c] = Reject(calls[c], UntypedError("TypeError", msg))]
  /\ UNCHANGED <<preloadVars, cfgVars, urlVars, sriVars, cacheMode, cacheMap, server>>

\* the pending fetch() resolves with a status that is neither 2xx nor 3xx
FetchReturnsStatus(c, statusTextQuotes) ==
  /\ calls[c].pc = "fetch"
  /\ server # "arbitrary" => ~statusTextQuotes
  /\ calls' = [calls EXCEPT ![c] =
       Reject(cleanup(calls[c]),
              GeoErrorQuoting("GEOGRAPHY_LOAD_ERROR", "HTTP status", statusTextQuotes))]
  /\ UNCHANGED <<preloadVars, cfgVars, urlVars, sriVars, cacheMode, cacheMap, server>>

\* what a 3xx response may carry as its Location, already resolved against
\* the current URL: nothing, something new URL() rejects, or a URL string
Locations ==
  {NotAUrl("none"), NotAUrl("malformed"),
   WithDefaultPort(PublicUrl), PrivateUrl,
   UrlOf("http:", [kind |-> "dns", name |-> ExampleName])}

\* the pending fetch() resolves with a 3xx response; its body is drained next
FetchReturnsRedirect(c, location) ==
  /\ calls[c].pc = "fetch"
  /\ server = "arbitrary"
  /\ calls' = [calls EXCEPT ![c] = [@ EXCEPT !.pc = "drain", !.location = location]]
  /\ UNCHANGED <<preloadVars, cfgVars, urlVars, sriVars, cacheMode, cacheMap, server>>

RedirectCheckSkipped(redirectUrl) == Ok

\* validateGeographyUrl(redirectUrl) inside the redirect loop
RedirectCheck(redirectUrl) ==
  validateGeographyUrl(redirectUrl, GEOGRAPHY_FETCH_CONFIG, nodeEnv)

\* the loop condition hop < MAX_REDIRECTS fails
HopLimitReached(hop) == hop >= MAX_REDIRECTS

\* the rest of one iteration of the redirect loop, after the body was drained
\* (or draining failed, which is ignored), and the start of the next
AfterDrain(call) ==
  IF call.location.form = "none"
    THEN Reject(call, GeoError("SECURITY_ERROR", "Redirect response missing Location header"))
  ELSE IF call.location.form # "url"
    THEN Reject(call, UntypedError("TypeError", "Invalid URL"))
  ELSE
    LET redirectUrl == Href(ParseURL(call.location))
        validation == RedirectCheck(redirectUrl)
    IN IF ~validation.ok THEN Reject(call, validation)
       ELSE LET next == [call EXCEPT !.validated = @ \cup {redirectUrl},
                                     !.currentUrl = redirectUrl,
                                     !.hop = @ + 1,
                                     !.location = NoUrl]
            IN IF HopLimitReached(next.hop)
               THEN Reject(next, GeoError("SECURITY_ERROR", "Too many redirects"))
               ELSE IssueFetch(next)

RedirectBodyDrained(c) ==
  /\ calls[c].pc = "drain"
  /\ calls' = [calls EXCEPT ![c] = AfterDrain(calls[c])]
  /\ UNCHANGED <<preloadVars, cfgVars, urlVars, sriVars, cacheMode, cacheMap, server>>

UpperJsonType == <<"A","P","P","L","I","C","A","T","I","O","N","/","J","S","O","N">>

TextType == <<"t","e","x","t","/","h","t","m","l">>

\* application/json; charset=utf-8
JsonCharsetType ==
  JsonType \o <<";"," ","c","h","a","r","s","e","t","=","u","t","f","-","8">>

\* the Content-Type header values a server sends, by server profile
ContentTypes ==
  IF server = "arbitrary" THEN {NoHeader, JsonType, TextType, Phrase}
  ELSE IF server = "documents"
    THEN {NoHeader, JsonType, UpperJsonType, JsonCharsetType, GeoJsonType, TextType}
  ELSE {JsonType}

ContentLengths ==
  IF server = "arbitrary" THEN {NoLength, 1, SmallCap + 1} ELSE {NoLength}

ConfigAtCallStart(call) == call.validatedUnder

\* the module-level GEOGRAPHY_FETCH_CONFIG object as validateContentType,
\* validateResponseSize and the default of maxBytes read it when they run
ConfigReadBy(call) == GEOGRAPHY_FETCH_CONFIG

\* the pending fetch() resolves with a 2xx response; the gates run and the
\* body read begins
FetchReturnsOk(c, contentType, contentLength, stream) ==
  /\ calls[c].pc = "fetch"
  /\ server = "wellBehaved" => stream
  /\ LET call == [cleanup(calls[c]) EXCEPT !.gated = TRUE, !.contentType = contentType]
         typeCheck == validateContentType(contentType, ConfigReadBy(calls[c]))
         sizeCheck == validateResponseSize(contentLength, ConfigReadBy(calls[c]))
     IN calls' = [calls EXCEPT ![c] =
          IF ~typeCheck.ok THEN Reject(call, typeCheck)
          ELSE IF ~sizeCheck.ok THEN Reject(call, sizeCheck)
          ELSE [call EXCEPT !.pc = IF stream THEN "read" ELSE "buffer",
                            !.contentLength = contentLength,
                            !.maxBytes = ConfigReadBy(calls[c]).MAX_RESPONSE_SIZE,
                            !.bodyReads = @ + 1,
                            !.reads = IF stream THEN 1 ELSE 0]]
  /\ UNCHANGED <<preloadVars, cfgVars, urlVars, sriVars, cacheMode, cacheMap, server>>

\* SRI verification and parsing of the buffer readResponseWithSizeLimit returned
AfterBody(call, arrayBuffer) ==
  LET got == [call EXCEPT !.returned = TRUE, !.buffer = arrayBuffer]
      integrity ==
        IF call.sriConfig.kind = "record"
        THEN validateSRIFromArrayBuffer(arrayBuffer, call.url, call.sriConfig.record)
        ELSE Ok
      parse == parseGeographyFromArrayBuffer(arrayBuffer)
  IN IF ~integrity.ok THEN Reject(got, integrity)
     ELSE IF ~parse.ok THEN Reject([got EXCEPT !.parsed = TRUE], parse)
     ELSE [got EXCEPT !.pc = "done", !.parsed = TRUE, !.outcome = Ok,
                      !.document = ParsedDocument(arrayBuffer)]

ExceedsLimitByTwo(totalBytes, maxBytes) == totalBytes > maxBytes + 1

\* totalBytes > maxBytes
ExceedsLimit(totalBytes, maxBytes) == totalBytes > maxBytes

\* the bodies of the "documents" server: one of each kind JSON.parse and
\* validateGeographyData tell apart, and a truncated one
Documents ==
  {<<"T", "}">>, <<"t", "}">>, <<"F", "}">>, <<"f", "}">>, <<"W", "}">>,
   <<"{", "}">>, <<"n">>, <<"T">>}

Chunks ==
  IF server = "arbitrary"
  THEN UNION {[1..n -> BodyBytes] : n \in 1..MaxChunk}
  ELSE IF server = "documents" THEN Documents
  ELSE {GenuineAtlas}

\* the pending reader.read() resolves with a chunk
ReaderReturnsChunk(c, value) ==
  /\ calls[c].pc = "read"
  /\ server # "arbitrary" => calls[c].received = <<>>
  /\ LET call == [calls[c] EXCEPT !.received = Append(@, value),
                                  !.totalBytes = @ + Len(value)]
     IN calls' = [calls EXCEPT ![c] =
          IF ExceedsLimit(call.totalBytes, call.maxBytes)
          THEN Reject([call EXCEPT !.cancelled = TRUE],
                      GeoError("VALIDATION_ERROR", "Response too large (streaming)"))
          ELSE [call EXCEPT !.chunks = Append(@, value), !.reads = @ + 1]]
  /\ UNCHANGED <<preloadVars, cfgVars, urlVars, sriVars, cacheMode, cacheMap, server>>

\* the pending reader.read() resolves with done
ReaderReturnsDone(c) ==
  /\ calls[c].pc = "read"
  /\ server # "arbitrary" => calls[c].received # <<>>
  /\ calls' = [calls EXCEPT ![c] = AfterBody(calls[c], Concat(calls[c].chunks))]
  /\ UNCHANGED <<preloadVars, cfgVars, urlVars, sriVars, cacheMode, cacheMap, server>>

\* the pending reader.read() rejects: the connection broke
ReaderFails(c) ==
  /\ calls[c].pc = "read"
  /\ calls' = [calls EXCEPT ![c] = Reject(calls[c], UntypedError("TypeError", "network error"))]
  /\ UNCHANGED <<preloadVars, cfgVars, urlVars, sriVars, cacheMode, cacheMap, server>>

WholeBodies ==
  IF server = "documents" THEN Documents
  ELSE UNION {[1..n -> BodyBytes] : n \in 0..(SmallCap + 1)}

\* without a ReadableStream: response.arrayBuffer() resolves with the body
ArrayBufferReturns(c, body) ==
  /\ calls[c].pc = "buffer"
  /\ calls' = [calls EXCEPT ![c] =
       IF Len(body) > calls[c].maxBytes
       THEN Reject([calls[c] EXCEPT !.totalBytes = Len(body)],
                   GeoError("VALIDATION_ERROR", "Response too large"))
       ELSE AfterBody([calls[c] EXCEPT !.totalBytes = Len(body)], body)]
  /\ UNCHANGED <<preloadVars, cfgVars, urlVars, sriVars, cacheMode, cacheMap, server>>

(***************************************************************************)
(* Resource preloading (preloading.ts)                                     *)
(***************************************************************************)
\* new URL(url).origin
Origin(url) ==
  LET parsedUrl == ParseURL(url) IN
  [protocol |-> parsedUrl.protocol, hostname |-> parsedUrl.hostname,
   port |-> parsedUrl.port]

\* a react-dom resource hint: prefetchDNS(origin), preconnect(origin),
\* preload(url, { as: 'fetch' })
Hint(fn, target) == [fn |-> fn, target |-> target]

preloadCatchRethrows(error, env) == [threw |-> TRUE, warned |-> FALSE]

\* catch (error) { if (NODE_ENV !== 'production') console.warn(...) }
preloadCatch(error, env) == [threw |-> FALSE, warned |-> env # "production"]

\* preloadGeography(url, immediate): the module-level set and the hints it
\* leaves behind, and whether it threw or warned
preloadGeography(url, immediate, env, config, preloaded, issued) ==
  LET untouched == [preloadedUrls |-> preloaded, hints |-> issued,
                    threw |-> FALSE, warned |-> FALSE]
      validation == validateGeographyUrl(url, config, env)
      shouldPreloadResource == immediate \/ env = "production"
      connected == issued \cup {Hint("prefetchDNS", Origin(url)),
                                Hint("preconnect", Origin(url))}
  IN IF url.form \in {"nonstring", "empty"} THEN untouched
     ELSE IF url \in preloaded THEN untouched
     ELSE IF ~validation.ok
       THEN [untouched EXCEPT !.threw = preloadCatch(validation, env).threw,
                              !.warned = preloadCatch(validation, env).warned]
     ELSE IF shouldPreloadResource
       THEN [untouched EXCEPT !.hints = connected \cup {Hint("preload", url)},
                              !.preloadedUrls = preloaded \cup {url}]
     ELSE [untouched EXCEPT !.hints = connected]

\* preloadGeography on the module's state
PreloadNow(url, immediate) ==
  preloadGeography(url, immediate, nodeEnv, GEOGRAPHY_FETCH_CONFIG, preloadedUrls, hints)

\* the URLs an application preloads
PreloadUrls ==
  {PublicUrl, KnownUrl, PrivateUrl,
   UrlOf("http:", [kind |-> "dns", name |-> ExampleName]),
   UrlOf("http:", [kind |-> "dns", name |-> LocalhostName]),
   NotAUrl("empty"), NotAUrl("malformed")}

\* a direct call preloadGeography(url, immediate)
PreloadGeography(url, immediate) ==
  LET result == PreloadNow(url, immediate) IN
  /\ preloadedUrls' = result.preloadedUrls
  /\ hints' = result.hints
  /\ lastPreload' = [url |-> url, threw |-> result.threw, warned |-> result.warned]
  /\ UNCHANGED <<cfgVars, urlVars, sriVars, pipeVars, preloader>>

MaxLoops == 2

RECURSIVE RunLoop(_)
\* the while loop of processQueue from its test up to the next await, or to
\* its end; state holds the preloader and the module's set, hints and last call
RunLoop(state) ==
  LET p == state.preloader IN
  IF p.preloadQueue = <<>>
  THEN [state EXCEPT !.preloader.isProcessing = FALSE]
  ELSE
    LET url == Head(p.preloadQueue)
        shifted == [state EXCEPT !.preloader.preloadQueue = Tail(@)]
        result == preloadGeography(url, FALSE, nodeEnv, GEOGRAPHY_FETCH_CONFIG,
                                   state.preloadedUrls, state.hints)
    IN IF url.form # "empty" /\ url \notin p.preloadedUrls
       THEN [preloader |-> [shifted.preloader EXCEPT !.preloadedUrls = @ \cup {url},
                                                     !.loops = @ + 1],
             preloadedUrls |-> result.preloadedUrls,
             hints |-> result.hints,
             lastPreload |-> [url |-> url, threw |-> result.threw,
                              warned |-> result.warned]]
       ELSE RunLoop(shifted)

\* the preloader and the module state an action starts from
PreloadState ==
  [preloader |-> preloader, preloadedUrls |-> preloadedUrls, hints |-> hints,
   lastPreload |-> lastPreload]

Install(state) ==
  /\ preloader' = state.preloader
  /\ preloadedUrls' = state.preloadedUrls
  /\ hints' = state.hints
  /\ lastPreload' = state.lastPreload

\* processQueue(), up to its first await
processQueue(state) ==
  IF state.preloader.isProcessing \/ state.preloader.preloadQueue = <<>> THEN state
  ELSE RunLoop([state EXCEPT !.preloader.isProcessing = TRUE])

\* the URLs handed to the preloader
QueueUrls == {PublicUrl, KnownUrl, PrivateUrl}

\* globalGeographyPreloader.queue(url)
PreloaderQueue(url) ==
  /\ preloader.isProcessing \/ preloader.loops < MaxLoops
  /\ url \notin preloader.preloadedUrls
  /\ \A i \in 1..Len(preloader.preloadQueue) : preloader.preloadQueue[i] # url
  /\ Install(processQueue([PreloadState EXCEPT !.preloader.preloadQueue = Append(@, url)]))
  /\ UNCHANGED <<cfgVars, urlVars, sriVars, pipeVars>>

\* globalGeographyPreloader.immediate(url)
PreloaderImmediate(url) ==
  /\ url \notin preloader.preloadedUrls
  /\ LET result == PreloadNow(url, FALSE) IN
     /\ preloader' = [preloader EXCEPT !.preloadedUrls = @ \cup {url}]
     /\ preloadedUrls' = result.preloadedUrls
     /\ hints' = result.hints
     /\ lastPreload' = [url |-> url, threw |-> result.threw, warned |-> result.warned]
  /\ UNCHANGED <<cfgVars, urlVars, sriVars, pipeVars>>

\* globalGeographyPreloader.clear()
PreloaderClear ==
  /\ preloader' = [preloader EXCEPT !.preloadQueue = <<>>,
                                    !.preloadedUrls = {},
                                    !.isProcessing = FALSE]
  /\ UNCHANGED <<cfgVars, urlVars, sriVars, pipeVars, preloadedUrls, hints, lastPreload>>

\* a 50 ms throttle timer comes due: the loop awaiting it goes on
ThrottleTimerFires ==
  /\ preloader.loops > 0
  /\ Install(RunLoop([PreloadState EXCEPT !.preloader.loops = @ - 1]))
  /\ UNCHANGED <<cfgVars, urlVars, sriVars, pipeVars>>

(***************************************************************************)
(* Specifications                                                          *)
(***************************************************************************)
NoCalls == [c \in Calls |-> IdleCall]

\* preloading.ts as loaded: nothing preloaded, nothing queued
PreloadingIdle ==
  /\ preloadedUrls = {}
  /\ hints = {}
  /\ lastPreload = NoPreload
  /\ preloader = NewPreloader

EmptyRegistry == [default |-> EmptyMap, user |-> EmptyMap]

\* direct calls of the URL validator under every reachable configuration
InitUrl ==
  /\ nodeEnv \in NodeEnvs
  /\ GEOGRAPHY_FETCH_CONFIG = DEFAULT_GEOGRAPHY_FETCH_CONFIG
  /\ vUrl \in PolicyUrls
  /\ vResult = Pending
  /\ currentSRIConfig = DEFAULT_SRI_CONFIG
  /\ sriMaps = EmptyRegistry
  /\ sUrl = NoUrl
  /\ sResult = Pending
  /\ cacheMode = "none"
  /\ cacheMap = EmptyMap
  /\ calls = NoCalls
  /\ server = "arbitrary"
  /\ PreloadingIdle

NextUrl ==
  \/ \E config \in PolicyOverrides : ConfigureGeographySecurity(config)
  \/ \E allow \in BOOLEAN : EnableDevelopmentMode(allow)
  \/ ValidateGeographyUrl

SpecUrl == InitUrl /\ [][NextUrl]_vars

\* the URLs an application validates between reconfigurations
ConfigUrls ==
  {UrlOf(s, [kind |-> "dns", name |-> n]) :
     s \in {"https:", "http:"}, n \in {LocalhostName, ExampleName}}

\* reconfiguration of the URL policy, with a few validations in between
InitConfig ==
  /\ nodeEnv \in NodeEnvs
  /\ GEOGRAPHY_FETCH_CONFIG = DEFAULT_GEOGRAPHY_FETCH_CONFIG
  /\ vUrl \in ConfigUrls
  /\ vResult = Pending
  /\ currentSRIConfig = DEFAULT_SRI_CONFIG
  /\ sriMaps = EmptyRegistry
  /\ sUrl = NoUrl
  /\ sResult = Pending
  /\ cacheMode = "none"
  /\ cacheMap = EmptyMap
  /\ calls = NoCalls
  /\ server = "arbitrary"
  /\ PreloadingIdle

SpecConfig == InitConfig /\ [][NextUrl]_vars

\* the policies an application that preloads switches between
PreloadOverrides ==
  {<<>>,
   ("STRICT_HTTPS_ONLY" :> FALSE) @@ ("ALLOW_HTTP_LOCALHOST" :> TRUE)
     @@ ("ALLOWED_PROTOCOLS" :> {"https:", "http:"})}

\* preloading under either runtime mode
InitPreload ==
  /\ nodeEnv \in NodeEnvs
  /\ GEOGRAPHY_FETCH_CONFIG = DEFAULT_GEOGRAPHY_FETCH_CONFIG
  /\ vUrl = NoUrl
  /\ vResult = Pending
  /\ currentSRIConfig = DEFAULT_SRI_CONFIG
  /\ sriMaps = EmptyRegistry
  /\ sUrl = NoUrl
  /\ sResult = Pending
  /\ cacheMode = "none"
  /\ cacheMap = EmptyMap
  /\ calls = NoCalls
  /\ server = "arbitrary"
  /\ PreloadingIdle

NextPreload ==
  \/ \E config \in PreloadOverrides : ConfigureGeographySecurity(config)
  \/ \E url \in PreloadUrls, immediate \in BOOLEAN : PreloadGeography(url, immediate)

SpecPreload == InitPreload /\ [][NextPreload]_vars

NextPreloader ==
  \/ \E url \in QueueUrls : PreloaderQueue(url)
  \/ \E url \in QueueUrls : PreloaderImmediate(url)
  \/ PreloaderClear
  \/ ThrottleTimerFires

SpecPreloader == InitPreload /\ [][NextPreloader]_vars

\* direct lookups in the SRI registry under every reachable policy
InitSRI ==
  /\ nodeEnv = "production"
  /\ GEOGRAPHY_FETCH_CONFIG = DEFAULT_GEOGRAPHY_FETCH_CONFIG
  /\ vUrl = NoUrl
  /\ vResult = Pending
  /\ currentSRIConfig = DEFAULT_SRI_CONFIG
  /\ sriMaps = EmptyRegistry
  /\ sUrl \in LookupUrls
  /\ sResult = Pending
  /\ cacheMode = "none"
  /\ cacheMap = EmptyMap
  /\ calls = NoCalls
  /\ server = "arbitrary"
  /\ PreloadingIdle

NextSRI ==
  \/ \E config \in SRIOverrides : ConfigureSRI(config)
  \/ EnableStrictSRI
  \/ DisableSRI
  \/ \E url \in RegisteredUrls, sri \in CustomRecords : AddCustomSRI(url, sri)
  \/ GetSRIForUrl

SpecSRI == InitSRI /\ [][NextSRI]_vars

\* configureGeographySecurity({ MAX_RESPONSE_SIZE: SmallCap })
SmallConfig == configureGeographySecurityResult("MAX_RESPONSE_SIZE" :> SmallCap)

\* the same with plain http to localhost admitted
LocalConfig ==
  configureGeographySecurityResult(
    ("MAX_RESPONSE_SIZE" :> SmallCap) @@ ("STRICT_HTTPS_ONLY" :> FALSE)
      @@ ("ALLOW_HTTP_LOCALHOST" :> TRUE) @@ ("ALLOWED_PROTOCOLS" :> {"https:", "http:"}))

\* configureGeographySecurity({ ALLOWED_CONTENT_TYPES: allowed })
WithContentTypes(allowed) ==
  configureGeographySecurityResult("ALLOWED_CONTENT_TYPES" :> allowed)

\* the lists an application configures: the default one, one written in
\* capitals, one of two other types
ContentTypeLists ==
  {DEFAULT_GEOGRAPHY_FETCH_CONFIG.ALLOWED_CONTENT_TYPES, <<UpperJsonType>>,
   <<TextType, GeoJsonType>>}

\* addCustomSRI(PublicUrl, the sha256 record of the published file)
PublicRecord == SRIRecord("sha256", "sha256", calculateHash(GenuineAtlas, "sha256").digest)

\* the set-ups a fetch starts from: the application configured the policy,
\* the registry and, on a server, a request scope for cache()
Setups ==
  {[env |-> "production", config |-> SmallConfig, sri |-> p, maps |-> EmptyRegistry,
    server |-> "arbitrary", cacheMode |-> "none"] :
      p \in {DEFAULT_SRI_CONFIG, enableStrictSRIResult(DEFAULT_SRI_CONFIG)}}
  \cup
  {[env |-> "production", config |-> SmallConfig, sri |-> DEFAULT_SRI_CONFIG,
    maps |-> addCustomSRIResult(EmptyRegistry, "default", PublicUrl, PublicRecord),
    server |-> "arbitrary", cacheMode |-> "none"],
   [env |-> "development", config |-> LocalConfig, sri |-> DEFAULT_SRI_CONFIG,
    maps |-> EmptyRegistry, server |-> "arbitrary", cacheMode |-> "none"]}
  \cup
  {[env |-> "production", config |-> SmallConfig, sri |-> DEFAULT_SRI_CONFIG,
    maps |-> EmptyRegistry, server |-> "wellBehaved", cacheMode |-> m] :
      m \in {"memo", "none"}}
  \cup
  {[env |-> "production", config |-> WithContentTypes(allowed),
    sri |-> DEFAULT_SRI_CONFIG, maps |-> EmptyRegistry, server |-> "documents",
    cacheMode |-> "none"] : allowed \in ContentTypeLists}

Init ==
  \E setup \in Setups :
    /\ nodeEnv = setup.env
    /\ GEOGRAPHY_FETCH_CONFIG = setup.config
    /\ vUrl = NoUrl
    /\ vResult = Pending
    /\ currentSRIConfig = setup.sri
    /\ sriMaps = setup.maps
    /\ sUrl = NoUrl
    /\ sResult = Pending
    /\ cacheMode = setup.cacheMode
    /\ cacheMap = EmptyMap
    /\ calls = NoCalls
    /\ server = setup.server
    /\ PreloadingIdle

Next ==
  \/ \E c \in Calls, url \in CallUrls : FetchGeographiesCache(c, url)
  \/ \E c \in Calls : TimerFires(c)
  \/ \E c \in Calls, msg \in {"Failed to fetch", "Load failed"} : FetchFails(c, msg)
  \/ \E c \in Calls, quotes \in BOOLEAN : FetchReturnsStatus(c, quotes)
  \/ \E c \in Calls, location \in Locations : FetchReturnsRedirect(c, location)
  \/ \E c \in Calls : RedirectBodyDrained(c)
  \/ \E c \in Calls, contentType \in ContentTypes, contentLength \in ContentLengths,
        stream \in BOOLEAN : FetchReturnsOk(c, contentType, contentLength, stream)
  \/ \E c \in Calls, value \in Chunks : ReaderReturnsChunk(c, value)
  \/ \E c \in Calls : ReaderReturnsDone(c)
  \/ \E c \in Calls : ReaderFails(c)
  \/ \E c \in Calls, body \in WholeBodies : ArrayBufferReturns(c, body)

Spec == Init /\ [][Next]_vars

\* what the application reconfigures while a fetch is in flight
RaceOverrides ==
  {"MAX_RESPONSE_SIZE" :> SmallCap, "ALLOWED_CONTENT_TYPES" :> <<TextType, GeoJsonType>>}

RaceSRIOverrides ==
  {("enforceForKnownSources" :> TRUE) @@ ("enforceForAllSources" :> TRUE)
     @@ ("allowUnknownSources" :> FALSE),
   ("enforceForKnownSources" :> FALSE) @@ ("enforceForAllSources" :> FALSE)}

\* one fetch from a server that answers with the published file, in an
\* application that starts from the defaults
InitRace ==
  /\ nodeEnv \in NodeEnvs
  /\ GEOGRAPHY_FETCH_CONFIG = DEFAULT_GEOGRAPHY_FETCH_CONFIG
  /\ vUrl = NoUrl
  /\ vResult = Pending
  /\ currentSRIConfig = DEFAULT_SRI_CONFIG
  /\ sriMaps = EmptyRegistry
  /\ sUrl = NoUrl
  /\ sResult = Pending
  /\ cacheMode = "none"
  /\ cacheMap = EmptyMap
  /\ calls = NoCalls
  /\ server = "wellBehaved"
  /\ PreloadingIdle

\* the steps of that fetch, interleaved with the module's setters
NextRace ==
  \/ \E url \in CallUrls : FetchGeographiesCache(1, url)
  \/ TimerFires(1)
  \/ FetchFails(1, "Failed to fetch")
  \/ FetchReturnsOk(1, JsonType, NoLength, TRUE)
  \/ ReaderReturnsChunk(1, GenuineAtlas)
  \/ ReaderReturnsDone(1)
  \/ \E config \in RaceOverrides : ConfigureGeographySecurity(config)
  \/ EnableDevelopmentMode(TRUE)
  \/ EnableStrictSRI
  \/ \E config \in RaceSRIOverrides : ConfigureSRI(config)
  \/ \E sri \in {PublicRecord, SRIRecord("sha256", "sha256", "a")} :
        AddCustomSRI(PublicUrl, sri)

SpecRace == InitRace /\ [][NextRace]_vars

\* response.arrayBuffer() on a redirect response settles once the signal has
\* aborted
AbortedDrainSettles(c) ==
  /\ calls[c].timer = "fired"
  /\ RedirectBodyDrained(c)

\* What the runtime guarantees of the pipeline's own steps: a timer that
\* stays armed comes due, and a read on an aborted response settles. Nothing
\* is assumed of the server.
Fairness ==
  \A c \in Calls : WF_vars(TimerFires(c)) /\ WF_vars(AbortedDrainSettles(c))

SpecLive == Init /\ [][Next]_vars /\ Fairness

(***************************************************************************)
(* The address ranges the URL policy lists, by number                      *)
(***************************************************************************)
ListedV4(o) ==
  \/ o[1] = 10
  \/ o[1] = 172 /\ o[2] \in 16..31
  \/ o[1] = 192 /\ o[2] = 168
  \/ o[1] = 127
  \/ o[1] = 169 /\ o[2] = 254
  \/ o[1] = 0
  \/ o[1] = 100 /\ o[2] \in 64..127
  \/ o[1] = 192 /\ o[2] = 0 /\ o[3] = 0
  \/ o[1] = 198 /\ o[2] \in 18..19
  \/ o[1] = 233 /\ o[2] = 252 /\ o[3] = 0

ListedV6(g) ==
  \/ g = <<0, 0, 0, 0, 0, 0, 0, 1>>
  \/ g = <<0, 0, 0, 0, 0, 0, 0, 0>>
  \/ g[1] \in 65152..65215
  \/ g[1] \in 64512..65023
  \/ g[1] \in 65280..65535
  \/ g[1] = 256 /\ g[2] = 0 /\ g[3] = 0 /\ g[4] = 0
  \/ g[1] = 8193 /\ g[2] = 3512
  \/ g[1] = 8193 /\ g[2] = 0
  \/ /\ \A i \in 1..5 : g[i] = 0
     /\ g[6] = 65535
     /\ ListedV4(<<g[7] \div 256, g[7] % 256, g[8] \div 256, g[8] % 256>>)

ListedPrivateHost(host) ==
  \/ host.kind = "v4" /\ ListedV4(host.o)
  \/ host.kind = "v6" /\ ListedV6(host.g)

(***************************************************************************)
(* Properties                                                              *)
(***************************************************************************)
\* C1: every URL a call has handed to fetch(), the first request and each
\* followed redirect hop, is one validateGeographyUrl accepted earlier in
\* that call, and it passes the policy in force.
C1_RequestsValidated ==
  \A c \in Calls : \A i \in 1..Len(calls[c].requests) :
     /\ calls[c].requests[i] \in calls[c].validated
     /\ validateGeographyUrl(calls[c].requests[i], GEOGRAPHY_FETCH_CONFIG, nodeEnv).ok

\* a call for the known source followed two redirects to the public host
C1_Witness ==
  \E c \in Calls :
     /\ Len(calls[c].requests) = 3
     /\ calls[c].requests[1] = KnownUrl
     /\ calls[c].requests[3] = PublicUrl
     /\ calls[c].validated = {KnownUrl, PublicUrl}

\* C2: whatever configuration and runtime mode are in force, a URL whose host
\* is an IP literal in a listed private or reserved range is rejected with
\* SECURITY_ERROR, and the classifier answers the same for the bracketed
\* and the bare spelling of the host.
C2_PrivateHostsRejected ==
  (IsUrlString(vUrl) /\ ListedPrivateHost(vUrl.host) /\ vResult # Pending) =>
     /\ ~vResult.ok
     /\ vResult.type = "SECURITY_ERROR"
     /\ isPrivateIPAddress(Hostname(vUrl.host))
     /\ isPrivateIPAddress(stripIPv6Brackets(Hostname(vUrl.host)))

\* a bracketed IPv6 unique-local host was validated under a relaxed
\* configuration whose protocol checks it passes
C2_Witness ==
  /\ IsUrlString(vUrl)
  /\ vUrl.host.kind = "v6"
  /\ vUrl.host.g[1] = 64512
  /\ ~GEOGRAPHY_FETCH_CONFIG.STRICT_HTTPS_ONLY
  /\ vUrl.scheme = "https:"
  /\ vResult.msg = "private ip"

\* the redirect target the call was looking at when it stopped
RedirectTarget(call) == Href(ParseURL(call.location))

StoppedAtInvalidRedirect(call) ==
  /\ call.pc = "done"
  /\ call.location.form = "url"
  /\ ~validateGeographyUrl(RedirectTarget(call), GEOGRAPHY_FETCH_CONFIG, nodeEnv).ok

\* C3: when the target of redirect hop k (1..5) fails validation the call
\* rejects with SECURITY_ERROR having issued exactly k requests, none of them
\* to the rejected target.
C3_InvalidRedirectStops ==
  \A c \in Calls : StoppedAtInvalidRedirect(calls[c]) =>
     /\ calls[c].outcome.type = "SECURITY_ERROR"
     /\ calls[c].hop + 1 \in 1..MAX_REDIRECTS
     /\ Len(calls[c].requests) = calls[c].hop + 1
     /\ \A i \in 1..Len(calls[c].requests) : calls[c].requests[i] # RedirectTarget(calls[c])

\* the fifth redirect pointed at a private address
C3_Witness ==
  \E c \in Calls :
     /\ StoppedAtInvalidRedirect(calls[c])
     /\ calls[c].location = PrivateUrl
     /\ Len(calls[c].requests) = MAX_REDIRECTS
     /\ calls[c].outcome.type = "SECURITY_ERROR"

\* C4: the too-many-redirects error is raised only for a chain of more than
\* five redirects; a chain of five or fewer valid redirects is followed to
\* its final response.
C4_TooManyOnlyBeyondFive ==
  \A c \in Calls :
     calls[c].outcome.msg = "Too many redirects" => calls[c].hop > MAX_REDIRECTS

Streamed(call) == call.reads > 0

\* C5: on the streaming path a buffer is returned only when the streamed
\* total is within maxBytes and it is the chunks concatenated in order; the
\* first chunk that takes the total past maxBytes cancels the reader, ends
\* the reads and raises VALIDATION_ERROR; the retained bytes never exceed
\* maxBytes, whatever Content-Length said.
C5_StreamedSizeLimit ==
  \A c \in Calls : Streamed(calls[c]) =>
     LET call == calls[c] IN
     /\ call.totalBytes = Len(Concat(call.received))
     /\ Len(Concat(call.chunks)) <= call.maxBytes
     /\ call.returned =>
          /\ call.totalBytes <= call.maxBytes
          /\ call.buffer = Concat(call.received)
          /\ ~call.cancelled
     /\ call.cancelled <=> call.totalBytes > call.maxBytes
     /\ call.cancelled =>
          /\ call.pc = "done"
          /\ call.outcome.type = "VALIDATION_ERROR"
          /\ ~call.returned
          /\ call.reads = Len(call.received)
          /\ call.totalBytes - Len(call.received[Len(call.received)]) <= call.maxBytes

\* a body announced as one byte long streamed past the limit in its third chunk
C5_Witness ==
  \E c \in Calls :
     /\ calls[c].contentLength = 1
     /\ Len(calls[c].received) = 3
     /\ calls[c].cancelled
     /\ calls[c].outcome.type = "VALIDATION_ERROR"

InFlight(call) == call.pc \in {"fetch", "drain", "read", "buffer"}

\* C6: two calls with the same URL string never both run the pipeline at
\* the same time; the later one awaits the earlier one's result.
C6_SingleFlight ==
  \A c \in Calls, d \in Calls :
     (c # d /\ calls[c].url = calls[d].url) => ~(InFlight(calls[c]) /\ InFlight(calls[d]))

\* C7: a call made after a call for the same URL has rejected runs the
\* pipeline itself instead of receiving the earlier rejection.
C7_RetryAfterFailure ==
  \A c \in Calls : calls[c].afterRejection => calls[c].pc # "shared"

DigestMismatch(call) ==
  HashMismatch(calculateHash(call.buffer, call.sriConfig.record.algorithm),
               ExpectedHash(call.sriConfig.record))

\* C8: a call whose lookup found a record resolves only if the digest of
\* the received bytes equals the record's; on a mismatch it rejects with
\* SECURITY_ERROR and the body is neither parsed nor returned.
C8_IntegrityEnforced ==
  \A c \in Calls :
     (calls[c].sriConfig.kind = "record" /\ calls[c].returned) =>
        /\ calls[c].outcome.ok => ~DigestMismatch(calls[c])
        /\ DigestMismatch(calls[c]) =>
             /\ calls[c].outcome.type = "SECURITY_ERROR"
             /\ ~calls[c].parsed
             /\ calls[c].document = NoDocument

Unregistered(url) ==
  /\ canonicalizeUrlForSRI(url) \notin DOMAIN CustomSRIMap \cup DOMAIN KNOWN_GEOGRAPHY_SRI
  /\ url \notin DOMAIN CustomSRIMap \cup DOMAIN KNOWN_GEOGRAPHY_SRI

\* C9: under enforceForAllSources without allowUnknownSources a call for a
\* URL with no custom or known record rejects with SECURITY_ERROR, delivers
\* no document and reads the response body at most once.
C9_StrictUnknownRejected ==
  \A c \in Calls :
     ( /\ calls[c].pc \notin {"idle", "shared"}
       /\ IsUrlString(calls[c].url)
       /\ currentSRIConfig.enforceForAllSources
       /\ ~currentSRIConfig.allowUnknownSources
       /\ Unregistered(calls[c].url) ) =>
        /\ calls[c].pc = "done"
        /\ calls[c].outcome.type = "SECURITY_ERROR"
        /\ calls[c].document = NoDocument
        /\ calls[c].bodyReads <= 1

\* the public URL, which has no record, was fetched under the strict policy
C9_Witness ==
  \E c \in Calls :
     /\ calls[c].url = PublicUrl
     /\ currentSRIConfig.enforceForAllSources
     /\ calls[c].validated = {PublicUrl}
     /\ calls[c].outcome.msg =
          "SRI enforcement is enabled but no integrity hash is available for url"

\* what a lookup yields, leaving the text of a thrown error aside
LookupRecord(url) ==
  IF Lookup(url).kind = "throw" THEN [kind |-> "throw"] ELSE Lookup(url)

SameRecordForSpellings(u) ==
  /\ LookupRecord(WithFragment(u)) = LookupRecord(u)
  /\ LookupRecord(WithDefaultPort(u)) = LookupRecord(u)

FragmentFreeUrls ==
  UNION {{u, WithQuery(u), WithTrailingSlash(u)} : u \in {PublicUrl, KnownUrl}}

C11_VariantsKeepKnownRecord ==
  (currentSRIConfig.enforceForKnownSources /\ CustomSRIMap = EmptyMap) =>
     /\ Lookup(WithQuery(KnownUrl)) = FoundRecord(KNOWN_GEOGRAPHY_SRI[KnownUrl])
     /\ Lookup(WithFragment(KnownUrl)) = FoundRecord(KNOWN_GEOGRAPHY_SRI[KnownUrl])

\* C13: every failure of validateGeographyUrl is typed: VALIDATION_ERROR for
\* input that is not a string, is empty or does not parse, SECURITY_ERROR for
\* every other rejected input.
C13_FailuresTyped ==
  (vResult # Pending /\ ~vResult.ok) =>
     vResult.type = IF IsUrlString(vUrl) THEN "SECURITY_ERROR" ELSE "VALIDATION_ERROR"

IsMappedHost(host) ==
  /\ host.kind = "v6"
  /\ \A i \in 1..5 : host.g[i] = 0
  /\ host.g[6] = 65535

\* the IPv4 address embedded in an IPv4-mapped IPv6 host
EmbeddedV4(host) ==
  <<host.g[7] \div 256, host.g[7] % 256, host.g[8] \div 256, host.g[8] % 256>>

\* C18: an IPv4-mapped IPv6 host, in the compressed-hex form the URL parser
\* produces (bracketed or bare) and in dotted form, is classified private
\* exactly when the embedded IPv4 address is.
C18_MappedFollowsEmbedded ==
  (IsUrlString(vUrl) /\ IsMappedHost(vUrl.host)) =>
     LET embedded == isPrivateIPAddress(Dotted(EmbeddedV4(vUrl.host))) IN
     /\ isPrivateIPAddress(Hostname(vUrl.host)) = embedded
     /\ isPrivateIPAddress(SerializeIPv6(vUrl.host.g)) = embedded
     /\ isPrivateIPAddress(MappedPrefix \o Dotted(EmbeddedV4(vUrl.host))) = embedded
     /\ (vResult # Pending /\ embedded) => vResult.type = "SECURITY_ERROR"

\* ::ffff:192.168.0.1, which the parser writes ::ffff:c0a8:1, was rejected
\* as a private address
C18_Witness ==
  /\ IsUrlString(vUrl)
  /\ IsMappedHost(vUrl.host)
  /\ EmbeddedV4(vUrl.host) = <<192, 168, 0, 1>>
  /\ vUrl.scheme = "https:"
  /\ vResult.msg = "private ip"

\* C19: under the default configuration an https URL whose IPv6 host starts
\* with the group 2001 is rejected exactly when the second group is 0
\* (Teredo, 2001:0000::/32) or db8 (documentation); the rest of 2001::/16 passes.
C19_Only2001ReservedPrefixes ==
  ( /\ IsUrlString(vUrl) /\ vUrl.scheme = "https:"
    /\ vUrl.host.kind = "v6" /\ vUrl.host.g[1] = 8193
    /\ GEOGRAPHY_FETCH_CONFIG = DEFAULT_GEOGRAPHY_FETCH_CONFIG
    /\ vResult # Pending ) =>
     (vResult.ok <=> vUrl.host.g[2] \notin {0, 3512})

\* a host in 2001:4860::/32 passed validation
C19_Witness ==
  /\ IsUrlString(vUrl) /\ vUrl.scheme = "https:"
  /\ vUrl.host.kind = "v6" /\ vUrl.host.g[1] = 8193 /\ vUrl.host.g[2] = 18528
  /\ GEOGRAPHY_FETCH_CONFIG = DEFAULT_GEOGRAPHY_FETCH_CONFIG
  /\ vResult = Ok

\* C20: whenever STRICT_HTTPS_ONLY is true, only https URLs are accepted,
\* whatever ALLOWED_PROTOCOLS and ALLOW_HTTP_LOCALHOST hold.
C20_StrictAcceptsOnlyHttps ==
  (GEOGRAPHY_FETCH_CONFIG.STRICT_HTTPS_ONLY /\ vResult # Pending /\ vResult.ok) =>
     vUrl.scheme = "https:"

\* http://localhost was refused in development although http and localhost
\* were both allowed, because strict mode was on
C20_Witness ==
  /\ GEOGRAPHY_FETCH_CONFIG.STRICT_HTTPS_ONLY
  /\ GEOGRAPHY_FETCH_CONFIG.ALLOW_HTTP_LOCALHOST
  /\ "http:" \in GEOGRAPHY_FETCH_CONFIG.ALLOWED_PROTOCOLS
  /\ nodeEnv = "development"
  /\ vUrl = UrlOf("http:", [kind |-> "dns", name |-> LocalhostName])
  /\ vResult.msg = "strict https only"

\* C14: an error a stage of the pipeline threw with a kind reaches the
\* caller with that same kind.
C14_TypedErrorsKeepKind ==
  \A c \in Calls :
     (calls[c].pc = "done" /\ calls[c].thrown # Pending
        /\ calls[c].thrown.type # "untyped") =>
       calls[c].outcome.type = calls[c].thrown.type

\* the document is a Topology with objects and arcs or a FeatureCollection
\* with features
IsGeography(document) ==
  \/ document.type = "Topology" /\ {"objects", "arcs"} \subseteq document.members
  \/ document.type = "FeatureCollection" /\ "features" \in document.members

\* C15: every value a call resolves with is a Topology with objects and arcs
\* or a FeatureCollection with features.
C15_OnlyGeographyDelivered ==
  \A c \in Calls :
     (OutcomeOf(c) # Pending /\ OutcomeOf(c).ok) => IsGeography(DocumentOf(c))

PassedContentType(call) ==
  \/ call.thrown = Pending
  \/ call.thrown.msg \notin {"Missing Content-Type header", "Invalid content type"}

\* C17: a response without Content-Type is refused with VALIDATION_ERROR;
\* any other passes the gate exactly when its header contains, letter case
\* aside, an entry of the configured ALLOWED_CONTENT_TYPES.
C17_ContentTypeCaseInsensitive ==
  \A c \in Calls :
     calls[c].gated =>
       IF calls[c].contentType = NoHeader
       THEN /\ calls[c].thrown.type = "VALIDATION_ERROR"
            /\ calls[c].thrown.msg = "Missing Content-Type header"
       ELSE PassedContentType(calls[c]) <=>
              \E i \in 1..Len(GEOGRAPHY_FETCH_CONFIG.ALLOWED_CONTENT_TYPES) :
                 Includes(ToLowerCase(calls[c].contentType),
                          ToLowerCase(GEOGRAPHY_FETCH_CONFIG.ALLOWED_CONTENT_TYPES[i]))

\* C12: every call that has started its network request eventually settles,
\* whatever the server does: a stall before the headers, during a redirect
\* hop or while the body is streamed ends in a rejection by the timeout.
C12_StartedCallsSettle ==
  \A c \in Calls :
     (calls[c].pc \in {"fetch", "drain", "read", "buffer"}) ~> (calls[c].pc = "done")

\* the host is localhost, 127.0.0.1 or ::1
IsLoopbackHost(host) ==
  \/ host.kind = "dns" /\ host.name = LocalhostName
  \/ host.kind = "v4" /\ host.o = <<127, 0, 0, 1>>
  \/ host.kind = "v6" /\ host.g = <<0, 0, 0, 0, 0, 0, 0, 1>>

\* C21: in production, whatever the configuration, every http: URL and every
\* URL to localhost, 127.0.0.1 or ::1 is rejected with SECURITY_ERROR.
C21_ProductionForbidsHttpAndLocalhost ==
  ( /\ nodeEnv = "production"
    /\ vResult # Pending
    /\ IsUrlString(vUrl)
    /\ (vUrl.scheme = "http:" \/ IsLoopbackHost(vUrl.host)) ) =>
     vResult.type = "SECURITY_ERROR"

\* https://localhost was refused in production
C21_Witness ==
  /\ nodeEnv = "production"
  /\ vUrl = UrlOf("https:", [kind |-> "dns", name |-> LocalhostName])
  /\ vResult.msg = "localhost in production"

\* C22: in production a call of enableDevelopmentMode, with either argument,
\* leaves the active configuration as it was.
C22_DevelopmentModeRefused ==
  [][(nodeEnv = "production" /\ \E allow \in BOOLEAN : EnableDevelopmentMode(allow))
       => GEOGRAPHY_FETCH_CONFIG' = GEOGRAPHY_FETCH_CONFIG]_vars

\* in production, with a non-default configuration in force and a validation
\* result on the table, enableDevelopmentMode(true) runs and changes nothing
\* of the configuration
C22_Witness ==
  /\ nodeEnv = "production"
  /\ GEOGRAPHY_FETCH_CONFIG # DEFAULT_GEOGRAPHY_FETCH_CONFIG
  /\ GEOGRAPHY_FETCH_CONFIG.STRICT_HTTPS_ONLY
  /\ vResult # Pending
  /\ ENABLED (EnableDevelopmentMode(TRUE) /\ vResult' # vResult
                /\ GEOGRAPHY_FETCH_CONFIG' = GEOGRAPHY_FETCH_CONFIG)

\* the defaults with exactly the fields of override replaced
DefaultsOverriddenBy(override) ==
  [field \in DOMAIN DEFAULT_GEOGRAPHY_FETCH_CONFIG |->
     IF field \in DOMAIN override THEN override[field]
     ELSE DEFAULT_GEOGRAPHY_FETCH_CONFIG[field]]

\* C28: whatever configuration is in force, configureGeographySecurity(p)
\* leaves the defaults overridden by exactly the fields of p; nothing of
\* earlier calls remains, and a second call with the same p changes nothing.
C28_ConfigureHistoryIndependent ==
  [][\A p \in PolicyOverrides :
       ConfigureGeographySecurity(p) =>
         /\ GEOGRAPHY_FETCH_CONFIG' = DefaultsOverriddenBy(p)
         /\ configureGeographySecurityResult(p) = GEOGRAPHY_FETCH_CONFIG']_vars

\* in development the configuration is the default but for ALLOW_HTTP_LOCALHOST:
\* configureGeographySecurity set it, and nothing of a development-mode
\* configuration is left in it
C28_Witness ==
  /\ nodeEnv = "development"
  /\ GEOGRAPHY_FETCH_CONFIG =
       DefaultsOverriddenBy("ALLOW_HTTP_LOCALHOST" :> TRUE)
  /\ GEOGRAPHY_FETCH_CONFIG # DEFAULT_GEOGRAPHY_FETCH_CONFIG

\* C29: an http: URL passes only when its host is the name localhost; with
\* host 127.0.0.1 or ::1 it is always rejected with SECURITY_ERROR.
C29_HttpOnlyForLocalhostName ==
  (vResult # Pending /\ IsUrlString(vUrl) /\ vUrl.scheme = "http:") =>
     /\ vResult.ok => (vUrl.host.kind = "dns" /\ vUrl.host.name = LocalhostName)
     /\ (IsLoopbackHost(vUrl.host) /\ vUrl.host.kind # "dns") =>
          vResult.type = "SECURITY_ERROR"

\* http://127.0.0.1 passed the HTTP-localhost check in development and was
\* then refused as a private address
C29_Witness ==
  /\ nodeEnv = "development"
  /\ vUrl = UrlOf("http:", [kind |-> "v4", o |-> <<127, 0, 0, 1>>])
  /\ vResult.msg = "private ip"

\* C23: right after disableSRI() getSRIForUrl returns null for every URL,
\* those with a known record and those with a custom record included.
C23_DisabledMeansNoRecord ==
  [][DisableSRI =>
       \A url \in LookupUrls :
          getSRIForUrl(url, currentSRIConfig', sriMaps'[currentSRIConfig'.customSRIMap])
            = NoRecord]_vars

\* C27: no operation changes DEFAULT_SRI_CONFIG: the map its customSRIMap
\* refers to stays empty, so the policy configureSRI({}) installs finds no
\* record for a URL outside KNOWN_GEOGRAPHY_SRI.
C27_DefaultsNeverChange ==
  /\ sriMaps[DEFAULT_SRI_CONFIG.customSRIMap] = EmptyMap
  /\ \A url \in LookupUrls :
        (IsUrlString(url) /\ canonicalizeUrlForSRI(url) \notin DOMAIN KNOWN_GEOGRAPHY_SRI) =>
          getSRIForUrl(url, configureSRIResult(<<>>),
                       sriMaps[configureSRIResult(<<>>).customSRIMap]) = NoRecord

\* C24: a preloadGeography call for a URL that fails validateGeographyUrl
\* returns normally, issues no resource hint and records nothing.
C24_InvalidUrlsPreloadNothing ==
  [][\A url \in PreloadUrls, immediate \in BOOLEAN :
       ( /\ PreloadGeography(url, immediate)
         /\ ~validateGeographyUrl(url, GEOGRAPHY_FETCH_CONFIG, nodeEnv).ok ) =>
          /\ ~lastPreload'.threw
          /\ hints' = hints
          /\ preloadedUrls' = preloadedUrls]_vars

\* after a public URL had been preloaded, a call for a private address was
\* caught with a warning in development and left the hints as they were
C24_Witness ==
  /\ nodeEnv = "development"
  /\ lastPreload.url = PrivateUrl
  /\ lastPreload.warned
  /\ ~lastPreload.threw
  /\ Hint("preload", PublicUrl) \in hints
  /\ \A h \in hints : h.target \notin {PrivateUrl, Origin(PrivateUrl)}
  /\ PrivateUrl \notin preloadedUrls

\* C30: at most one processQueue loop is active at a time, and isProcessing
\* is true exactly while one is.
C30_OneLoopAtATime ==
  /\ preloader.loops <= 1
  /\ preloader.isProcessing <=> preloader.loops = 1

\* C25: the gates of a fetch in flight read the security configuration as it
\* is when they run, not as it was when the call validated its URL: the
\* content type is checked against the current list and the size cap is the
\* current MAX_RESPONSE_SIZE.
C25_GatesReadCurrentConfig ==
  [][(calls[1].pc = "fetch" /\ calls'[1].gated) =>
       LET typeCheck == validateContentType(calls'[1].contentType, GEOGRAPHY_FETCH_CONFIG)
       IN IF typeCheck.ok
          THEN /\ calls'[1].pc = "read"
               /\ calls'[1].maxBytes = GEOGRAPHY_FETCH_CONFIG.MAX_RESPONSE_SIZE
          ELSE /\ calls'[1].pc = "done"
               /\ calls'[1].thrown = typeCheck]_vars

\* a call whose URL was validated under one configuration had its content
\* type refused under another, or reads its body under another size cap
C25_Witness ==
  /\ calls[1].gated
  /\ calls[1].validated = {calls[1].url}
  /\ \/ /\ calls[1].pc = "read"
        /\ calls[1].maxBytes # calls[1].validatedUnder.MAX_RESPONSE_SIZE
     \/ /\ calls[1].pc = "done"
        /\ calls[1].thrown = GeoErrorQuoting("VALIDATION_ERROR", "Invalid content type", FALSE)
        /\ validateContentType(calls[1].contentType, calls[1].validatedUnder).ok

\* C26: whenever a fetch resolves with a document, the SRI policy in force at
\* that moment either has no record for the URL and requires none, or has a
\* record whose digest the delivered body matches.
C26_DeliveryMeetsCurrentPolicy ==
  [][(calls[1].pc # "done" /\ calls'[1].pc = "done" /\ calls'[1].outcome = Ok) =>
       LET lookup == Lookup(calls'[1].url)
       IN \/ lookup.kind = "null"
          \/ /\ lookup.kind = "record"
             /\ ~HashMismatch(calculateHash(calls'[1].buffer, lookup.record.algorithm),
                              ExpectedHash(lookup.record))]_vars

=============================================================================
